---------------------------- MODULE Spec2Model ----------------------------
(***************************************************************************)
(* Model of the odds updaters of HumbleGrinder/Odds:                       *)
(*   slug     src/scripts/update-polymarket.js:1-172  (= part_000:1-146)   *)
(*   slugfull src/scripts/update-polymarket.js:173-326                     *)
(*   legacy   src/unnamed/part_000:147-280                                 *)
(*   bulk     src/unnamed/part_001                                         *)
(*   kalshi   src/scripts/update-kalshi-bafta.js                           *)
(* Strings are sequences of one-character strings, so that lower-casing,   *)
(* substring tests, the denylist pattern, parseFloat and the formatting of *)
(* the odds are computed rather than assumed.  Probabilities are exact     *)
(* rationals in hundredths (cents).                                        *)
(***************************************************************************)
EXTENDS Integers, Sequences, FiniteSets, TLC

VARIABLES
    variant,      \* which updater script this run executes
    store,        \* the database: path index -> stored nominee list (<<>> = nothing stored)
    today,        \* new Date().toISOString().split('T')[0] of the run, as a day number
    pc,           \* position of main(): "page", "paged", "fetch", "read", "write", "done", "fatal"
                  \* (an adapter alone: "adapter", "returned"; a converter: "convert", "converted")
    cat,          \* index of the category main() is processing
    quotes,       \* the adapter's result for the current category
    snap,         \* firebaseNominees: the snapshot read for the current category
    response,     \* the HTTP response the adapter received last
    allMarkets,   \* bulk: the Oscars markets collected so far
    offset,       \* bulk: the offset of the next page request
    requests,     \* bulk: offsets of the page requests fetchAllOscarsMarkets has issued
    pageSizes,    \* bulk: number of markets of each page it received (-1: failed request)
                  \* (offset, requests and pageSizes live as long as the call)
    writes,       \* number of storage writes issued per path index
    reads,        \* number of storage reads issued per path index
    started,      \* number of times the category of each index has been started
    convIn,       \* converter: the input last converted
    convOut       \* converter: the odds string produced for convIn

vars == <<variant, store, today, pc, cat, quotes, snap, response,
          allMarkets, offset, requests, pageSizes, writes, reads, started,
          convIn, convOut>>

countVars == <<writes, reads, started>>

bulkVars == <<allMarkets, offset, requests, pageSizes>>
convVars == <<convIn, convOut>>

-----------------------------------------------------------------------------
(* Strings *)

Upper == <<"A","B","C","D","E","F","G","H","I","J","K","L","M",
           "N","O","P","Q","R","S","T","U","V","W","X","Y","Z">>
Lower == <<"a","b","c","d","e","f","g","h","i","j","k","l","m",
           "n","o","p","q","r","s","t","u","v","w","x","y","z">>
Digits == <<"0","1","2","3","4","5","6","7","8","9">>

IsUpper(c) == \E i \in 1..Len(Upper) : Upper[i] = c
IsLower(c) == \E i \in 1..Len(Lower) : Lower[i] = c
IsDigit(c) == \E i \in 1..Len(Digits) : Digits[i] = c
DigitVal(c) == (CHOOSE i \in 1..Len(Digits) : Digits[i] = c) - 1

LowerChar(c) == IF IsUpper(c) THEN Lower[CHOOSE i \in 1..Len(Upper) : Upper[i] = c] ELSE c

\* String.prototype.toLowerCase
toLowerCase(s) == [i \in 1..Len(s) |-> LowerChar(s[i])]

\* String.prototype.includes: b occurs in a as a contiguous substring
includes(a, b) == \E i \in 0..(Len(a) - Len(b)) : SubSeq(a, i + 1, i + Len(b)) = b

\* String.prototype.trim
RECURSIVE trimLeft(_)
trimLeft(s) == IF s # <<>> /\ Head(s) = " " THEN trimLeft(Tail(s)) ELSE s
RECURSIVE trimRight(_)
trimRight(s) == IF s # <<>> /\ s[Len(s)] = " " THEN trimRight(SubSeq(s, 1, Len(s) - 1)) ELSE s
trim(s) == trimRight(trimLeft(s))

\* Number -> decimal string, as a template literal `${n}` prints an integer
RECURSIVE NatToStr(_)
NatToStr(n) == IF n < 10 THEN <<Digits[n + 1]>>
               ELSE NatToStr(n \div 10) \o <<Digits[(n % 10) + 1]>>
IntToStr(n) == IF n < 0 THEN <<"-">> \o NatToStr(-n) ELSE NatToStr(n)

-----------------------------------------------------------------------------
(* JavaScript numbers: NaN, +-Infinity, or a finite value.  Probabilities   *)
(* are finite values counted in hundredths; odds are finite integers.       *)

NaN    == [k |-> "nan"]
PosInf == [k |-> "inf", neg |-> FALSE]
NegInf == [k |-> "inf", neg |-> TRUE]
Fin(n) == [k |-> "fin", n |-> n]

\* `${x}` of a number
NumToStr(x) == CASE x.k = "nan" -> <<"N","a","N">>
                 [] x.k = "inf" -> (IF x.neg THEN <<"-">> ELSE <<>>)
                                   \o <<"I","n","f","i","n","i","t","y">>
                 [] OTHER       -> IntToStr(x.n)

\* The leading run of decimal digits of s
RECURSIVE DigitPrefix(_)
DigitPrefix(s) == IF s # <<>> /\ IsDigit(Head(s)) THEN <<Head(s)>> \o DigitPrefix(Tail(s))
                  ELSE <<>>
RECURSIVE StrToNat(_)
StrToNat(s) == IF s = <<>> THEN 0 ELSE 10 * StrToNat(SubSeq(s, 1, Len(s) - 1)) + DigitVal(s[Len(s)])

\* parseFloat of a string of the form digits[.digits]: the longest numeric
\* prefix, in hundredths; NaN when the string does not start with a digit.
\* (Fractions are read to two places; signs, exponents and a leading '.' do
\* not occur in the inputs of the model.)
parseFloat(s) ==
    LET ip   == DigitPrefix(s)
        rest == SubSeq(s, Len(ip) + 1, Len(s))
        fp   == IF rest # <<>> /\ Head(rest) = "." THEN DigitPrefix(Tail(rest)) ELSE <<>>
        f2   == SubSeq(fp \o <<"0","0">>, 1, 2)
    IN  IF ip = <<>> THEN NaN ELSE Fin(100 * StrToNat(ip) + StrToNat(f2))

\* Math.round(num / den) for integers num, den, in exact arithmetic: the
\* nearest integer, halves toward +Infinity; a zero denominator gives
\* +-Infinity (NaN for 0/0).
\* (mutant: Math.floor in place of Math.round)
RoundDiv_floors(num, den) ==
    CASE den = 0 /\ num = 0 -> NaN
      [] den = 0 /\ num > 0 -> PosInf
      [] den = 0 /\ num < 0 -> NegInf
      [] den > 0 -> Fin(num \div den)
      [] OTHER   -> Fin((-num) \div (-den))
RoundDiv(num, den) ==
    CASE den = 0 /\ num = 0 -> NaN
      [] den = 0 /\ num > 0 -> PosInf
      [] den = 0 /\ num < 0 -> NegInf
      [] den > 0 -> Fin((2 * num + den) \div (2 * den))
      [] OTHER   -> Fin((2 * (-num) + (-den)) \div (2 * (-den)))

-----------------------------------------------------------------------------
(* The arithmetic of JavaScript numbers is IEEE-754 binary64: every          *)
(* operation rounds its exact result to the nearest value with a 53-bit      *)
(* mantissa, ties to even.                                                   *)

\* Naturals below 2^75 as five limbs of 15 bits, least significant first
LimbBits == 15
Limbs == 5
Base == 2 ^ LimbBits
Pow2(k) == 2 ^ k
LimbAt(a, i) == IF i \in 1..Limbs THEN a[i] ELSE 0
LOfNat(n) == [i \in 1..Limbs |-> CASE i = 1 -> n % Base [] i = 2 -> n \div Base [] OTHER -> 0]
LToNat(a) == a[1] + Base * a[2]
LZero == [i \in 1..Limbs |-> 0]
RECURSIVE AddFrom(_, _, _, _)
AddFrom(a, b, i, c) ==
    IF i > Limbs THEN <<>>
    ELSE <<(a[i] + b[i] + c) % Base>> \o AddFrom(a, b, i + 1, (a[i] + b[i] + c) \div Base)
LAdd(a, b) == AddFrom(a, b, 1, 0)
RECURSIVE SubFrom(_, _, _, _)
SubFrom(a, b, i, w) ==
    IF i > Limbs THEN <<>>
    ELSE <<(a[i] - b[i] - w) % Base>> \o SubFrom(a, b, i + 1, IF a[i] - b[i] - w < 0 THEN 1 ELSE 0)
\* a - b for a >= b
LSub(a, b) == SubFrom(a, b, 1, 0)
LGeq(a, b) ==
    LET D == {i \in 1..Limbs : a[i] # b[i]}
    IN  D = {} \/ LET t == CHOOSE i \in D : \A j \in D : j <= i IN a[t] > b[t]
LShl(a, s) ==
    LET j == s \div LimbBits
        r == s % LimbBits
    IN  [i \in 1..Limbs |-> ((LimbAt(a, i - j) * Pow2(r)) % Base)
                             + (LimbAt(a, i - j - 1) \div Pow2(LimbBits - r))]
LShr(a, s) ==
    LET j == s \div LimbBits
        r == s % LimbBits
    IN  [i \in 1..Limbs |-> (LimbAt(a, i + j) \div Pow2(r))
                             + ((LimbAt(a, i + j + 1) % Pow2(r)) * Pow2(LimbBits - r))]
\* The number of bits of a
LBitLen(a) ==
    LET D == {i \in 1..Limbs : a[i] # 0}
    IN  IF D = {} THEN 0
        ELSE LET t == CHOOSE i \in D : \A j \in D : j <= i
             IN  LimbBits * (t - 1)
                 + (CHOOSE k \in 1..LimbBits : Pow2(k - 1) <= a[t] /\ a[t] < Pow2(k))
\* Bit s (from 0) of a, and whether any bit below s is set
LBit(a, s) == LShr(a, s)[1] % 2
LBelow(a, s) == a # LShl(LShr(a, s), s)

\* A positive binary64 value m * 2^e, m of exactly 53 bits
MantBits == 53
Dbl(m, e) == [m |-> m, e |-> e]

\* Round to nearest, ties to even: the binary64 value nearest to the exact
\* value, which is a * 2^e, or lies strictly between that and (a+1) * 2^e if sticky
RoundToDouble(a, e, sticky) ==
    LET n == LBitLen(a)
        s == n - MantBits
    IN  IF s <= 0 THEN Dbl(LShl(a, -s), e + s)
        ELSE LET keep == LShr(a, s)
                 up   == LBit(a, s - 1) = 1
                         /\ (sticky \/ LBelow(a, s - 1) \/ LBit(a, s) = 1)
                 r    == IF up THEN LAdd(keep, LOfNat(1)) ELSE keep
             IN  IF LBitLen(r) > MantBits THEN Dbl(LShr(r, 1), e + s + 1)
                 ELSE Dbl(r, e + s)

\* a * k for a small natural k
RECURSIVE MulFrom(_, _, _, _)
MulFrom(a, k, i, c) ==
    IF i > Limbs THEN <<>>
    ELSE <<(a[i] * k + c) % Base>> \o MulFrom(a, k, i + 1, (a[i] * k + c) \div Base)
LMul(a, k) == MulFrom(a, k, 1, 0)

\* Long division in digits of DigitBits bits.  A state of the division holds
\* the quotient so far, the remainder (below den) and the digits still to come.
DigitBits == 4
DivStates == [q : Seq(Nat), r : Seq(Nat), den : Seq(Nat), n : Nat]
DivStep(st) ==
    LET r2 == LShl(st.r, DigitBits)
        d  == CHOOSE k \in 0..(Pow2(DigitBits) - 1) :
                 LGeq(r2, LMul(st.den, k)) /\ ~LGeq(r2, LMul(st.den, k + 1))
    IN  [q |-> LAdd(LShl(st.q, DigitBits), LOfNat(d)),
         r |-> LSub(r2, LMul(st.den, d)),
         den |-> st.den,
         n |-> st.n - 1]
Divide[st \in DivStates] == IF st.n = 0 THEN st ELSE Divide[DivStep(st)]

\* a / b in binary64: 14 quotient digits (56 bits) and the remainder, then rounded
DblDiv(a, b) ==
    LET n == 14
        w == n * DigitBits
        d == IF LGeq(a.m, b.m)
             THEN Divide[[q |-> LOfNat(1), r |-> LSub(a.m, b.m), den |-> b.m, n |-> n]]
             ELSE Divide[[q |-> LZero, r |-> a.m, den |-> b.m, n |-> n]]
    IN  RoundToDouble(d.q, a.e - b.e - w, d.r # LZero)

\* The binary64 value of a natural below 2^30
DblOfNat(n) == RoundToDouble(LOfNat(n), 0, FALSE)

\* a * 100 in binary64 (100 = 64 + 32 + 4)
DblTimes100(a) ==
    RoundToDouble(LAdd(LAdd(LShl(a.m, 6), LShl(a.m, 5)), LShl(a.m, 2)), a.e, FALSE)

\* 1 - a in binary64 for 0 < a < 1
DblOneMinus(a) == RoundToDouble(LSub(LShl(LOfNat(1), -a.e), a.m), a.e, FALSE)

\* Math.round of a binary64 value of magnitude a >= 1 (neg: the value is -a):
\* the nearest integer, ties toward +Infinity
DblRound(a, neg) ==
    LET f    == -a.e
        ip   == LToNat(LShr(a.m, f))
        half == f > 0 /\ LBit(a.m, f - 1) = 1
        more == f > 1 /\ LBelow(a.m, f - 1)
    IN  IF neg THEN -(ip + (IF half /\ more THEN 1 ELSE 0))
        ELSE ip + (IF half THEN 1 ELSE 0)

\* prob = c / 100 for c in 1..99: parseFloat("0.cc") and priceInCents / 100
\* give the same binary64 value, the one nearest to c/100
Prob64(c) == DblDiv(DblOfNat(c), DblOfNat(100))
\* Math.round(-(prob * 100) / (1 - prob))
NegOdds64(c) == DblRound(DblDiv(DblTimes100(Prob64(c)), DblOneMinus(Prob64(c))), TRUE)
\* Math.round(((1 - prob) * 100) / prob)
PosOdds64(c) == DblRound(DblDiv(DblTimes100(DblOneMinus(Prob64(c))), Prob64(c)), FALSE)

\* Whether num / den (num, den > 0) lies exactly halfway between two integers
IsHalf(num, den) == (2 * num) % den = 0 /\ ((2 * num) \div den) % 2 = 1

\* The two results of the converters for prob = c / 100.  The binary64
\* quotient is within 2^-38 of the exact one (four roundings of values below
\* 2^14), so Math.round of it is the exact rounding unless the exact quotient
\* is a half-integer; there the binary64 evaluation decides.
negativeOdds(c) ==
    IF c \in 1..99 /\ IsHalf(100 * c, 100 - c) THEN Fin(NegOdds64(c))
    ELSE RoundDiv(-(100 * c), 100 - c)
positiveOdds(c) ==
    IF c \in 1..99 /\ IsHalf(100 * (100 - c), c) THEN Fin(PosOdds64(c))
    ELSE RoundDiv(100 * (100 - c), c)

\* probToAmericanOdds(probability), probability a number: prob = c/100.
\*   prob >= 0.5:  Math.round(-(prob*100)/(1-prob)), printed bare
\*   else (also NaN): Math.round(((1-prob)*100)/prob), printed after '+'
\* (mutant: 0.5 falls into the '+' branch)
probToAmericanOdds_halfPositive(prob) ==
    IF prob.k = "fin" /\ prob.n > 50
    THEN NumToStr(negativeOdds(prob.n))
    ELSE <<"+">> \o (IF prob.k = "nan" THEN NumToStr(NaN)
                     ELSE NumToStr(positiveOdds(prob.n)))
probToAmericanOdds(prob) ==
    IF prob.k = "fin" /\ prob.n >= 50
    THEN NumToStr(negativeOdds(prob.n))
    ELSE <<"+">> \o (IF prob.k = "nan" THEN NumToStr(NaN)
                     ELSE NumToStr(positiveOdds(prob.n)))

\* kalshiPriceToAmericanOdds(priceInCents): prob = priceInCents / 100, then as above
kalshiPriceToAmericanOdds(priceInCents) ==
    IF priceInCents >= 50
    THEN NumToStr(negativeOdds(priceInCents))
    ELSE <<"+">> \o NumToStr(positiveOdds(priceInCents))

-----------------------------------------------------------------------------
(* JavaScript values, tagged by type.  A string that carries JSON text is   *)
(* represented by what JSON.parse makes of it (field json): "empty" for the *)
(* empty text and "invalid" for text that is not JSON make JSON.parse throw.*)

Undef   == [t |-> "undefined"]
Null    == [t |-> "null"]
Str(s)  == [t |-> "string", s |-> s]
Num(n)  == [t |-> "number", n |-> n]
Arr(a)  == [t |-> "array", items |-> a]
Obj(m)  == [t |-> "object", markets |-> m]
Text(j) == [t |-> "string", json |-> j]
EmptyText   == Text([t |-> "empty"])
InvalidText == Text([t |-> "invalid"])

\* JSON.parse(text) throws a SyntaxError
ParseThrows(text) == text.json.t \in {"empty", "invalid"}

\* Truthiness of a name-like value (a string, or undefined)
Truthy(v) == v.t = "string" /\ v.s # <<>>

\* An adapter result: a list of quotes, or null (fetchCategory)
Result(list) == [null |-> FALSE, list |-> list]
NullResult   == [null |-> TRUE, list |-> <<>>]

S_other    == <<"o","t","h","e","r">>
S_movie    == <<"m","o","v","i","e">>
S_actor    == <<"a","c","t","o","r">>
S_actress  == <<"a","c","t","r","e","s","s">>
S_director == <<"d","i","r","e","c","t","o","r">>
S_film     == <<"f","i","l","m">>

\* name.match(/^(Other|<prefix> [A-Z]|...)$/i) for the given prefixes
MatchesPlaceholder(prefixes, name) ==
    LET l == toLowerCase(name)
    IN  \/ l = S_other
        \/ \E p \in prefixes :
              /\ Len(l) = Len(p) + 2
              /\ SubSeq(l, 1, Len(p)) = p
              /\ l[Len(p) + 1] = " "
              /\ IsLower(l[Len(p) + 2])

\* /^(Other|Movie [A-Z]|Actor [A-Z]|Actress [A-Z]|Director [A-Z]|Film [A-Z])$/i
DenyFull(name) == MatchesPlaceholder({S_movie, S_actor, S_actress, S_director, S_film}, name)

\* /^(Other|Film [A-Z])$/i
DenyShort(name) == MatchesPlaceholder({S_film}, name)

-----------------------------------------------------------------------------
(* Polymarket by slug: fetchPolymarketData (update-polymarket.js:26-64)     *)

\* parseFloat(prices[0]) for a parsed array: prices[0] of an empty array is
\* undefined, and parseFloat(undefined) is NaN
FirstPrice(items) == IF items = <<>> THEN NaN ELSE parseFloat(items[1])

\* One iteration of the for-loop with its try/catch: the quotes pushed (0 or 1)
slugMarketQuotes(market) ==
    IF market.outcomePrices.t # "string" THEN <<>>
    ELSE IF ParseThrows(market.outcomePrices) THEN <<>>
    ELSE IF market.outcomePrices.json.t # "array" THEN <<>>        \* prices[0] of null throws
    ELSE IF Truthy(market.groupItemTitle) /\ ~DenyFull(market.groupItemTitle.s)
         THEN <<[name |-> market.groupItemTitle.s,
                 odds |-> probToAmericanOdds(FirstPrice(market.outcomePrices.json.items))]>>
         ELSE <<>>

RECURSIVE slugQuotes(_)
slugQuotes(markets) ==
    IF markets = <<>> THEN <<>>
    ELSE slugMarketQuotes(Head(markets)) \o slugQuotes(Tail(markets))

\* The response status is never looked at.
fetchPolymarketData(resp) ==
    IF resp.net = "error" THEN Result(<<>>)                        \* fetch rejects: caught
    ELSE IF ParseThrows(resp.body) THEN Result(<<>>)               \* JSON.parse(text) throws: caught
    ELSE IF resp.body.json.t # "array" \/ resp.body.json.items = <<>> THEN Result(<<>>)
    ELSE LET event == resp.body.json.items[1]
         IN  IF event.t # "object" \/ event.markets.t # "array"
             THEN Result(<<>>)                                     \* event.markets not iterable: caught
             ELSE Result(slugQuotes(event.markets.items))

-----------------------------------------------------------------------------
(* Polymarket by slug, second script: fetchCategory                         *)
(* (update-polymarket.js:198-255)                                           *)

\* The map callback throws: JSON.parse(market.outcomePrices) or prices[0]
categoryMapThrows(market) ==
    CASE market.outcomePrices.t = "undefined" -> TRUE              \* JSON.parse(undefined)
      [] market.outcomePrices.t = "string" ->
            ParseThrows(market.outcomePrices) \/ market.outcomePrices.json.t = "null"
      [] OTHER -> FALSE                                            \* a number parses to itself

\* The map callback's record; prices[0] of a number is undefined
categoryMapped(market) ==
    LET probability == IF market.outcomePrices.t = "string"
                       THEN FirstPrice(market.outcomePrices.json.items)
                       ELSE NaN
    IN  [name |-> market.groupItemTitle, probability |-> probability,
         odds |-> probToAmericanOdds(probability)]

RECURSIVE categoryFilter(_)
categoryFilter(markets) ==
    IF markets = <<>> THEN <<>>
    ELSE LET n == categoryMapped(Head(markets))
         IN  (IF Truthy(n.name) /\ ~DenyShort(n.name.s)
              THEN <<[name |-> n.name.s, probability |-> n.probability, odds |-> n.odds]>>
              ELSE <<>>) \o categoryFilter(Tail(markets))

fetchCategory(resp) ==
    IF resp.net = "error" THEN NullResult
    ELSE IF ~resp.ok THEN NullResult
    ELSE IF resp.body.json.t = "empty" THEN NullResult
    ELSE IF ParseThrows(resp.body) THEN NullResult
    ELSE IF resp.body.json.t # "array" \/ resp.body.json.items = <<>> THEN NullResult
    ELSE LET event == resp.body.json.items[1]
         IN  IF event.t # "object" THEN NullResult                 \* null.title throws; [] has no markets
             ELSE IF event.markets.t # "array" \/ event.markets.items = <<>> THEN NullResult
             ELSE IF \E i \in 1..Len(event.markets.items) : categoryMapThrows(event.markets.items[i])
                  THEN NullResult                                  \* the outer catch
             ELSE Result(categoryFilter(event.markets.items))

-----------------------------------------------------------------------------
(* Polymarket by slug, oldest script: fetchPolymarketData                   *)
(* (part_000:182-210).  `event` is never declared, so the map expression    *)
(* throws a ReferenceError, which the catch turns into [].                  *)

legacyFetchPolymarketData(resp) ==
    IF resp.net = "error" THEN Result(<<>>)
    ELSE IF ParseThrows(resp.body) THEN Result(<<>>)               \* response.json() rejects
    ELSE IF resp.body.json.t = "null" THEN Result(<<>>)            \* !data
    ELSE IF resp.body.json.t = "array" /\ resp.body.json.items = <<>> THEN Result(<<>>)
    ELSE Result(<<>>)                                              \* ReferenceError: event

-----------------------------------------------------------------------------
(* Kalshi by series: fetchKalshiData (update-kalshi-bafta.js:29-71)         *)

kalshiMarketQuotes(market) ==
    LET name == IF Truthy(market.title) THEN market.title.s
                ELSE IF Truthy(market.subtitle) THEN market.subtitle.s
                ELSE <<>>
    IN  IF name # <<>> /\ market.yes_price.t \notin {"undefined", "null"}
        THEN <<[name |-> trim(name), odds |-> kalshiPriceToAmericanOdds(market.yes_price.n)]>>
        ELSE <<>>

RECURSIVE kalshiQuotes(_)
kalshiQuotes(markets) ==
    IF markets = <<>> THEN <<>>
    ELSE kalshiMarketQuotes(Head(markets)) \o kalshiQuotes(Tail(markets))

fetchKalshiData(resp) ==
    IF resp.net = "error" THEN Result(<<>>)
    ELSE IF ~resp.ok THEN Result(<<>>)
    ELSE IF ParseThrows(resp.body) THEN Result(<<>>)               \* response.json() rejects
    ELSE IF resp.body.json.t # "object" THEN Result(<<>>)          \* null.markets throws; [].markets undefined
    ELSE IF resp.body.json.markets.t # "array" \/ resp.body.json.markets.items = <<>>
         THEN Result(<<>>)
    ELSE Result(kalshiQuotes(resp.body.json.markets.items))

-----------------------------------------------------------------------------
(* Polymarket bulk search (part_001)                                        *)

PageLimit == 100
MaxOffset == 500

S_Oscars2026  == <<"O","s","c","a","r","s"," ","2","0","2","6">>
S_Academy2026 == <<"A","c","a","d","e","m","y"," ","A","w","a","r","d","s"," ","2","0","2","6">>
S_Picture  == <<"O","s","c","a","r","s"," ","2","0","2","6",":"," ","B","e","s","t"," ",
                "P","i","c","t","u","r","e"," ","W","i","n","n","e","r">>
S_Director == <<"O","s","c","a","r","s"," ","2","0","2","6",":"," ","B","e","s","t"," ",
                "D","i","r","e","c","t","o","r"," ","W","i","n","n","e","r">>
S_Actor    == <<"O","s","c","a","r","s"," ","2","0","2","6",":"," ","B","e","s","t"," ",
                "A","c","t","o","r"," ","W","i","n","n","e","r">>

\* categories[k].search, in configuration order
Search == <<S_Picture, S_Director, S_Actor>>

\* A page of the listing: the markets the model spells out (items) and the
\* number of further markets on the page, none of which mentions the Oscars.
Page(items, filler) == [t |-> "array", items |-> items, filler |-> filler]
PageLength(page) == Len(page.items) + page.filler

\* markets.filter(m => m.question && (... 'Oscars 2026' || ... 'Academy Awards 2026'))
RECURSIVE oscarsMarkets(_)
oscarsMarkets(markets) ==
    IF markets = <<>> THEN <<>>
    ELSE (IF /\ Truthy(Head(markets).question)
             /\ \/ includes(Head(markets).question.s, S_Oscars2026)
                \/ includes(Head(markets).question.s, S_Academy2026)
          THEN <<Head(markets)>> ELSE <<>>) \o oscarsMarkets(Tail(markets))

\* One iteration of the while-loop of fetchAllOscarsMarkets, entered with
\* allMarkets = all and offset = off and receiving resp:
\*   failed: an error was thrown (the catch returns [])
\*   more:   the loop goes round again
\* (mutant: the catch returns what the earlier pages collected)
pageStep_keepsCollected(all, off, resp) ==
    IF resp.net = "error" \/ ~resp.ok \/ ParseThrows(resp.body)
    THEN [failed |-> TRUE, more |-> FALSE, all |-> all, off |-> off, size |-> -1]
    ELSE IF resp.body.json.t # "array" \/ PageLength(resp.body.json) = 0
    THEN [failed |-> FALSE, more |-> FALSE, all |-> all, off |-> off, size |-> 0]
    ELSE LET markets == resp.body.json
             found   == all \o oscarsMarkets(markets.items)
         IN  IF PageLength(markets) < PageLimit
             THEN [failed |-> FALSE, more |-> FALSE, all |-> found, off |-> off,
                   size |-> PageLength(markets)]
             ELSE [failed |-> FALSE,
                   more   |-> off + PageLimit < MaxOffset,
                   all    |-> found,
                   off    |-> off + PageLimit,
                   size   |-> PageLength(markets)]
\* (mutant: a short page does not end the loop)
pageStep_ignoresShortPage(all, off, resp) ==
    IF resp.net = "error" \/ ~resp.ok \/ ParseThrows(resp.body)
    THEN [failed |-> TRUE, more |-> FALSE, all |-> <<>>, off |-> off, size |-> -1]
    ELSE IF resp.body.json.t # "array" \/ PageLength(resp.body.json) = 0
    THEN [failed |-> FALSE, more |-> FALSE, all |-> all, off |-> off, size |-> 0]
    ELSE LET markets == resp.body.json
             found   == all \o oscarsMarkets(markets.items)
         IN  [failed |-> FALSE,
              more   |-> off + PageLimit < MaxOffset,
              all    |-> found,
              off    |-> off + PageLimit,
              size   |-> PageLength(markets)]
pageStep(all, off, resp) ==
    IF resp.net = "error" \/ ~resp.ok \/ ParseThrows(resp.body)
    THEN [failed |-> TRUE, more |-> FALSE, all |-> <<>>, off |-> off, size |-> -1]
    ELSE IF resp.body.json.t # "array" \/ PageLength(resp.body.json) = 0
    THEN [failed |-> FALSE, more |-> FALSE, all |-> all, off |-> off, size |-> 0]
    ELSE LET markets == resp.body.json
             found   == all \o oscarsMarkets(markets.items)
         IN  IF PageLength(markets) < PageLimit
             THEN [failed |-> FALSE, more |-> FALSE, all |-> found, off |-> off,
                   size |-> PageLength(markets)]
             ELSE [failed |-> FALSE,
                   more   |-> off + PageLimit < MaxOffset,
                   all    |-> found,
                   off    |-> off + PageLimit,
                   size   |-> PageLength(markets)]

\* a.probability > b.probability as JavaScript compares numbers (false with NaN)
Gt(a, b) == a.k = "fin" /\ b.k = "fin" /\ a.n > b.n

\* nominees.sort((a, b) => b.probability - a.probability): a stable sort,
\* here by insertion; an entry moves ahead of another only when its
\* probability is strictly greater.
RECURSIVE insertDesc(_, _)
insertDesc(sorted, q) ==
    IF sorted = <<>> THEN <<q>>
    ELSE IF Gt(q.probability, Head(sorted).probability) THEN <<q>> \o sorted
    ELSE <<Head(sorted)>> \o insertDesc(Tail(sorted), q)

RECURSIVE sortDesc(_)
sortDesc(list) ==
    IF list = <<>> THEN <<>>
    ELSE insertDesc(sortDesc(SubSeq(list, 1, Len(list) - 1)), list[Len(list)])

\* The comparator b.probability - a.probability gives NaN, taken as 0, when
\* either probability is NaN.  It orders the list consistently unless a NaN
\* stands next to two different numeric probabilities (both compare equal
\* to the NaN and not to each other).
IsNumeric(q) == q.probability.k = "fin"
Consistent(list) ==
    \/ \A i \in 1..Len(list) : IsNumeric(list[i])
    \/ \A i, j \in 1..Len(list) :
          (IsNumeric(list[i]) /\ IsNumeric(list[j])) => list[i].probability = list[j].probability

RECURSIVE Orderings(_)
Orderings(list) ==
    IF list = <<>> THEN {<<>>}
    ELSE UNION { { <<list[i]>> \o rest :
                     rest \in Orderings(SubSeq(list, 1, i - 1) \o SubSeq(list, i + 1, Len(list))) } :
                 i \in 1..Len(list) }

\* The lists nominees.sort(...) can leave: the stable descending order under
\* a consistent comparator; otherwise the order is implementation-defined
sorted(list) == IF Consistent(list) THEN {sortDesc(list)} ELSE Orderings(list)

\* One iteration of the for-loop of extractNominees with its try/catch
extractMarketQuotes(market) ==
    IF market.outcomes.t = "string" /\ market.outcomes.json.t # "empty"
       /\ ParseThrows(market.outcomes) THEN <<>>
    ELSE IF market.outcomePrices.t = "undefined" THEN <<>>          \* [] : length 0
    ELSE IF market.outcomePrices.t = "number" THEN <<>>             \* a number has no length
    ELSE IF market.outcomePrices.json.t = "empty" THEN <<>>         \* '' is falsy: []
    ELSE IF market.outcomePrices.json.t # "array" THEN <<>>         \* parse error, or null.length
    ELSE LET outcomes == IF market.outcomes.t = "string" /\ market.outcomes.json.t = "array"
                         THEN market.outcomes.json.items ELSE <<>>
             name == IF Truthy(market.groupItemTitle) THEN market.groupItemTitle.s
                     ELSE IF outcomes # <<>> THEN outcomes[1] ELSE <<>>
             prices == market.outcomePrices.json.items
         IN  IF name # <<>> /\ prices # <<>> /\ ~DenyFull(name)
             THEN <<[name |-> name, probability |-> parseFloat(prices[1]),
                     odds |-> probToAmericanOdds(parseFloat(prices[1]))]>>
             ELSE <<>>

RECURSIVE extractUnsorted(_, _)
extractUnsorted(markets, categorySearch) ==
    IF markets = <<>> THEN <<>>
    ELSE (IF Truthy(Head(markets).question) /\ includes(Head(markets).question.s, categorySearch)
          THEN extractMarketQuotes(Head(markets)) ELSE <<>>)
         \o extractUnsorted(Tail(markets), categorySearch)

\* The lists extractNominees(markets, categorySearch) can return
\* (mutant: the list is returned without the sort)
extractNominees_unsorted(markets, categorySearch) == {extractUnsorted(markets, categorySearch)}
extractNominees(markets, categorySearch) == sorted(extractUnsorted(markets, categorySearch))

-----------------------------------------------------------------------------
(* Matching and persistence                                                 *)

Variants == {"slug", "slugfull", "legacy", "bulk", "kalshi"}

\* The odds key each updater writes
SourceKey(v) == IF v = "kalshi" THEN "kalshi" ELSE "polymarket"

\* The predicate given to Array.prototype.find
nameMatches(v, qname, nname) ==
    CASE v \in {"slug", "kalshi"} ->
            \/ toLowerCase(qname) = toLowerCase(nname)
            \/ includes(toLowerCase(qname), toLowerCase(nname))
            \/ includes(toLowerCase(nname), toLowerCase(qname))
      [] v = "slugfull" -> toLowerCase(qname) = toLowerCase(nname)
      [] v = "legacy"   -> qname = nname
      [] v = "bulk"     ->
            \/ toLowerCase(qname) = toLowerCase(nname)
            \/ includes(qname, nname)
            \/ includes(nname, qname)

\* Array.prototype.find: the index of the first quote the predicate accepts, 0 for none
RECURSIVE findFrom(_, _, _, _)
findFrom(v, qs, nname, i) ==
    IF i > Len(qs) THEN 0
    ELSE IF nameMatches(v, qs[i].name, nname) THEN i
    ELSE findFrom(v, qs, nname, i + 1)
\* (mutant: the last accepted quote instead of the first)
findMatch_last(v, qs, nname) ==
    LET hits == {i \in 1..Len(qs) : nameMatches(v, qs[i].name, nname)}
    IN  IF hits = {} THEN 0 ELSE CHOOSE i \in hits : \A j \in hits : j <= i
findMatch(v, qs, nname) == findFrom(v, qs, nname, 1)

\* { ...nominee.odds, <key>: value }, and the effect of the patch key <i>/odds/<key>
setOdds(odds, key, value) ==
    [k \in (DOMAIN odds) \cup {key} |-> IF k = key THEN value ELSE odds[k]]

\* The record a matched nominee becomes
\* (mutant: the odds object is replaced, losing the other sources)
updated_dropsOtherSources(nominee, key, value, day) ==
    [nominee EXCEPT !.odds = [k \in {key} |-> value], !.lastUpdated = day]
\* (mutant: lastUpdated is not written)
updated_withoutDate(nominee, key, value, day) ==
    [nominee EXCEPT !.odds = setOdds(nominee.odds, key, value)]
updated(nominee, key, value, day) ==
    [nominee EXCEPT !.odds = setOdds(nominee.odds, key, value), !.lastUpdated = day]

\* The indices of the snapshot for which find returned a quote
matched(v, qs, nominees) == {i \in 1..Len(nominees) : findMatch(v, qs, nominees[i].name) # 0}

\* The updates object of the patch updaters: for each nominee of the snapshot
\* that find gave a quote, the keys <index>/odds/<source> and <index>/lastUpdated
updates(v, qs, snapshot, day) ==
    UNION { { [index |-> i, field |-> "odds", key |-> SourceKey(v),
               value |-> Str(qs[findMatch(v, qs, snapshot[i].name)].odds)],
              [index |-> i, field |-> "lastUpdated", key |-> "", value |-> Num(day)] } :
            i \in matched(v, qs, snapshot) }

\* ref.update(ups) on the list the store holds when the write lands: each key
\* sets the value at its path and leaves every sibling; a missing odds object
\* is created.  (Every index of a patch exists: nothing removes nominees.)
applyUpdates(current, ups) ==
    [i \in 1..Len(current) |->
        LET o == {u \in ups : u.index = i /\ u.field = "odds"}
            d == {u \in ups : u.index = i /\ u.field = "lastUpdated"}
            r == IF o = {} THEN current[i]
                 ELSE LET u == CHOOSE u \in o : TRUE
                      IN  [current[i] EXCEPT !.odds = setOdds(@, u.key, u.value.s)]
        IN  IF d = {} THEN r
            ELSE [r EXCEPT !.lastUpdated = (CHOOSE u \in d : TRUE).value.n]]

\* The patch updaters' write
\* (mutant: the key <index>/odds is set to an object holding the one source)
applyPatch_replacesOdds(v, qs, snapshot, current, day) ==
    [i \in 1..Len(current) |->
        IF i \in matched(v, qs, snapshot)
        THEN [current[i] EXCEPT
                !.odds = [k \in {SourceKey(v)} |-> qs[findMatch(v, qs, snapshot[i].name)].odds],
                !.lastUpdated = day]
        ELSE current[i]]
\* (mutant: the patch is applied to the list as it was read)
applyPatch_onSnapshot(v, qs, snapshot, current, day) ==
    applyUpdates(snapshot, updates(v, qs, snapshot, day))
applyPatch(v, qs, snapshot, current, day) ==
    applyUpdates(current, updates(v, qs, snapshot, day))

\* ref.set(updatedNominees): the mapped copy of the snapshot replaces the list
mapNominees(v, qs, snapshot, day) ==
    [i \in 1..Len(snapshot) |->
        IF i \in matched(v, qs, snapshot)
        THEN updated(snapshot[i], SourceKey(v),
                     qs[findMatch(v, qs, snapshot[i].name)].odds, day)
        ELSE snapshot[i]]

\* Whether the updater writes a partial patch (ref.update) or the whole list (ref.set)
Patches(v) == v \in {"slug", "kalshi"}

-----------------------------------------------------------------------------
(* Bounds and inputs                                                        *)

NumCategories == 2      \* categories of a run (the scripts configure 6, 15 or 19)
MaxNominees   == 2      \* stored nominees per path
MaxMarkets    == 2      \* markets per response

Paths == 1..NumCategories

S_Anna      == <<"A","n","n","a">>
S_Annabelle == <<"A","n","n","a","b","e","l","l","e">>
S_TomHanks  == <<"T","o","m"," ","H","a","n","k","s">>
S_hanks     == <<"h","a","n","k","s">>
S_MovieA    == <<"M","o","v","i","e"," ","A">>
S_MovieAB   == <<"M","o","v","i","e"," ","A","B">>
S_Other     == <<"O","t","h","e","r">>
S_Dune      == <<"D","u","n","e",":"," ","P","a","r","t"," ","T","w","o">>
S_Yes       == <<"Y","e","s">>
S_No        == <<"N","o">>
S_AnnaSp    == <<"A","n","n","a"," ">>
S_SuperBowl == <<"S","u","p","e","r"," ","B","o","w","l"," ","w","i","n","n","e","r">>
P082 == <<"0",".","8","2">>
P03  == <<"0",".","3">>
P05  == <<"0",".","5">>
P0   == <<"0">>
P1   == <<"1">>
Pabc == <<"a","b","c">>

\* Seqs of length at most n over S
SeqsUpTo(S, n) == UNION {[1..k -> S] : k \in 0..n}

\* Stored nominees: one with odds of both sources, one without odds yet
\* (film stands for the fields the updaters never name; odds <<>> is a
\* record without an odds object)
StoredNominees ==
    { [name |-> S_Anna, film |-> "f1",
       odds |-> [polymarket |-> <<"+","9","0","0">>, kalshi |-> <<"+","1","5","0">>],
       lastUpdated |-> 0],
      [name |-> S_TomHanks, film |-> "f2", odds |-> <<>>, lastUpdated |-> 0] }

\* The first path holds any list of stored nominees, the others nothing or one nominee
InitialStores ==
    { [p \in Paths |-> IF p = 1 THEN first ELSE rest[p]] :
        first \in SeqsUpTo(StoredNominees, MaxNominees),
        rest \in [Paths -> {<<>>, <<[name |-> S_Anna, film |-> "f1", odds |-> <<>>,
                                    lastUpdated |-> 0]>>}] }

\* A Polymarket market
Mk(title, prices, question, outcomes) ==
    [groupItemTitle |-> title, outcomePrices |-> prices, question |-> question,
     outcomes |-> outcomes]
Prices(p) == Text(Arr(<<p>>))
YesNo == Text(Arr(<<S_Yes, S_No>>))

\* A Kalshi market
Km(title, subtitle, price) == [title |-> title, subtitle |-> subtitle, yes_price |-> price]

\* Markets of the update runs
RunMarkets(v) ==
    CASE v = "kalshi" ->
            { Km(Str(S_Anna), Undef, Num(82)),
              Km(Str(S_Annabelle), Undef, Num(30)),
              Km(Undef, Str(S_hanks), Num(50)) }
      [] v = "bulk" ->
            { Mk(Str(S_Anna), Prices(P082), Str(S_Picture), YesNo),
              Mk(Str(S_Annabelle), Prices(P03), Str(S_Picture), YesNo),
              Mk(Str(S_hanks), Prices(P05), Str(S_Picture), YesNo),
              Mk(Str(S_Anna), Prices(P05), Str(S_Director), YesNo) }
      [] OTHER ->
            { Mk(Str(S_Anna), Prices(P082), Undef, Undef),
              Mk(Str(S_Annabelle), Prices(P03), Undef, Undef),
              Mk(Str(S_hanks), Prices(P05), Undef, Undef) }

\* Markets at the ends of the price range: a Kalshi yes_price of 0 or 100, a
\* Polymarket first outcome price of "0", "1" or a non-numeric string, next
\* to one market at 0.5
DegenerateMarkets(v) ==
    CASE v = "kalshi" ->
            { Km(Str(S_Anna), Undef, Num(0)),
              Km(Str(S_Anna), Undef, Num(100)),
              Km(Undef, Str(S_hanks), Num(50)) }
      [] v = "bulk" ->
            { Mk(Str(S_Anna), Prices(P0), Str(S_Picture), YesNo),
              Mk(Str(S_Anna), Prices(P1), Str(S_Picture), YesNo),
              Mk(Str(S_Anna), Prices(Pabc), Str(S_Picture), YesNo),
              Mk(Str(S_hanks), Prices(P05), Str(S_Picture), YesNo) }
      [] OTHER ->
            { Mk(Str(S_Anna), Prices(P0), Undef, Undef),
              Mk(Str(S_Anna), Prices(P1), Undef, Undef),
              Mk(Str(S_Anna), Prices(Pabc), Undef, Undef),
              Mk(Str(S_hanks), Prices(P05), Undef, Undef) }

NetError     == [net |-> "error"]
Http(ok, body) == [net |-> "ok", ok |-> ok, body |-> body]
NoResponse   == [net |-> "none"]

\* Transport failures: network error, non-success status, empty body, unparseable body
Failures == { NetError, Http(FALSE, InvalidText), Http(TRUE, EmptyText), Http(TRUE, InvalidText) }

\* The body an adapter expects around a list of markets
Envelope(v, markets) ==
    CASE v = "kalshi" -> Text(Obj(Arr(markets)))
      [] v = "bulk"   -> Text(Page(markets, 0))
      [] OTHER        -> Text(Arr(<<Obj(Arr(markets))>>))

\* Responses the sources give during a run
ResponsesOf(v, markets) ==
    Failures \cup { Http(TRUE, Envelope(v, ms)) : ms \in SeqsUpTo(markets, MaxMarkets) }
RunResponses(v) == ResponsesOf(v, RunMarkets(v))

\* Pages of the bulk listing: 0, 40 or 100 markets, of which at most `room` are spelled out
PagesOf(markets, room) ==
    Failures
    \cup { Http(TRUE, Text(Page(ms, size - Len(ms)))) :
             ms \in SeqsUpTo(markets, room), size \in {40, PageLimit} }
    \cup { Http(TRUE, Text(Page(<<>>, 0))) }
PageResponses(room) == PagesOf(RunMarkets("bulk"), room)

\* What the adapter of each updater can return; the bulk adapter is one
\* listing page followed by the extraction of the first category
adapter(v, resp) ==
    CASE v = "slug"     -> {fetchPolymarketData(resp)}
      [] v = "slugfull" -> {fetchCategory(resp)}
      [] v = "legacy"   -> {legacyFetchPolymarketData(resp)}
      [] v = "kalshi"   -> {fetchKalshiData(resp)}
      [] v = "bulk"     -> { Result(list) :
                               list \in extractNominees(pageStep(<<>>, 0, resp).all, Search[1]) }

-----------------------------------------------------------------------------
(* The update run: main() and updateCategory, one action per await          *)

\* updateCategory returns and main's loop moves on (the delay between
\* categories changes nothing)
\* (mutant: the loop of main steps over every other category)
NextCategory_skipsOne ==
    /\ snap' = <<>>
    /\ IF cat + 1 < NumCategories
       THEN cat' = cat + 2 /\ pc' = "fetch"
       ELSE cat' = cat /\ pc' = "done"
NextCategory ==
    /\ snap' = <<>>
    /\ IF cat < NumCategories
       THEN cat' = cat + 1 /\ pc' = "fetch"
       ELSE cat' = cat /\ pc' = "done"

\* bulk: one page request of fetchAllOscarsMarkets
PageRequestFrom(pages) ==
    /\ pc = "page"
    /\ \E resp \in pages :
         LET st == pageStep(allMarkets, offset, resp)
         IN  /\ requests' = Append(requests, offset)
             /\ pageSizes' = Append(pageSizes, st.size)
             /\ allMarkets' = st.all
             /\ offset' = st.off
             /\ pc' = IF st.more THEN "page" ELSE "paged"
    /\ UNCHANGED <<variant, store, today, cat, quotes, snap, response, countVars, convVars>>
PageRequest == PageRequestFrom(PageResponses(MaxMarkets - Len(allMarkets)))

\* bulk: fetchAllOscarsMarkets has returned; main exits with status 0 if
\* nothing was found and starts the categories otherwise
FetchAllReturns ==
    /\ pc = "paged"
    /\ pc' = IF allMarkets = <<>> THEN "done" ELSE "fetch"
    /\ offset' = 0
    /\ requests' = <<>>
    /\ pageSizes' = <<>>
    /\ UNCHANGED <<variant, store, today, cat, quotes, snap, response, countVars, allMarkets,
                   convVars>>

\* slug, slugfull, legacy, kalshi: updateCategory starts with the adapter
\* call; quotes is what the adapter returned
FetchFrom(responses) ==
    /\ pc = "fetch"
    /\ variant # "bulk"
    /\ \E resp \in responses :
         \E r \in adapter(variant, resp) :
             /\ quotes' = r
             /\ IF r.null \/ r.list = <<>>
                THEN NextCategory
                ELSE pc' = "read" /\ UNCHANGED <<cat, snap>>
    /\ started' = [started EXCEPT ![cat] = @ + 1]
    /\ UNCHANGED <<variant, store, today, response, writes, reads, bulkVars, convVars>>
Fetch == FetchFrom(RunResponses(variant))

\* extractNominees(allMarkets, categories[k].search) for every list of
\* markets fetchAllOscarsMarkets can return, tabulated so that it is
\* evaluated once
extracted ==
    [ms \in SeqsUpTo(RunMarkets("bulk") \cup DegenerateMarkets("bulk"), MaxMarkets),
     k \in Paths |->
        extractNominees(ms, Search[k])] @@ <<>>

\* bulk: updateCategory starts with extractNominees(allMarkets, category.search)
Extract ==
    /\ pc = "fetch"
    /\ variant = "bulk"
    /\ \E list \in extracted[allMarkets, cat] :
           /\ quotes' = Result(list)
           /\ IF list = <<>>
              THEN NextCategory
              ELSE pc' = "read" /\ UNCHANGED <<cat, snap>>
    /\ started' = [started EXCEPT ![cat] = @ + 1]
    /\ UNCHANGED <<variant, store, today, response, writes, reads, bulkVars, convVars>>

\* await ref.once('value'): nothing stored ends the category
\* (mutant: the check for an empty snapshot is missing)
Read_ignoresEmpty ==
    /\ pc = "read"
    /\ reads' = [reads EXCEPT ![cat] = @ + 1]
    /\ snap' = store[cat] /\ pc' = "write" /\ UNCHANGED <<cat, quotes>>
    /\ UNCHANGED <<variant, store, today, response, writes, started, bulkVars, convVars>>
Read ==
    /\ pc = "read"
    /\ reads' = [reads EXCEPT ![cat] = @ + 1]
    /\ IF store[cat] = <<>>
       THEN NextCategory /\ quotes' = Result(<<>>)
       ELSE snap' = store[cat] /\ pc' = "write" /\ UNCHANGED <<cat, quotes>>
    /\ UNCHANGED <<variant, store, today, response, writes, started, bulkVars, convVars>>

\* The stored list after the updater's write
written(v, qs, snapshot, current, day) ==
    IF Patches(v) THEN applyPatch(v, qs, snapshot, current, day)
    ELSE mapNominees(v, qs, snapshot, day)

\* The updater issues a write: always when it replaces the list, and only
\* for a non-empty patch otherwise
Writes(v, qs, snapshot) == ~Patches(v) \/ updates(v, qs, snapshot, 0) # {}

\* await ref.update(updates) / await ref.set(updatedNominees)
Write ==
    /\ pc = "write"
    /\ IF Writes(variant, quotes.list, snap)
       THEN /\ store' = [store EXCEPT ![cat] = written(variant, quotes.list, snap, store[cat], today)]
            /\ writes' = [writes EXCEPT ![cat] = @ + 1]
       ELSE UNCHANGED <<store, writes>>
    /\ NextCategory
    /\ quotes' = Result(<<>>)
    /\ UNCHANGED <<variant, today, response, reads, started, bulkVars, convVars>>

\* The storage read rejects: main().catch exits with status 1
ReadFails ==
    /\ pc = "read"
    /\ pc' = "fatal"
    /\ reads' = [reads EXCEPT ![cat] = @ + 1]
    /\ UNCHANGED <<variant, store, today, cat, quotes, snap, response, writes, started,
                   bulkVars, convVars>>

\* The storage write rejects
WriteFails ==
    /\ pc = "write"
    /\ Writes(variant, quotes.list, snap)
    /\ pc' = "fatal"
    /\ UNCHANGED <<variant, store, today, cat, quotes, snap, response, countVars,
                   bulkVars, convVars>>

Init ==
    /\ variant \in Variants
    /\ store \in InitialStores
    /\ today = 1
    /\ pc = IF variant = "bulk" THEN "page" ELSE "fetch"
    /\ cat = 1
    /\ quotes = Result(<<>>)
    /\ snap = <<>>
    /\ response = NoResponse
    /\ allMarkets = <<>>
    /\ offset = 0
    /\ requests = <<>>
    /\ pageSizes = <<>>
    /\ writes = [p \in Paths |-> 0]
    /\ reads = [p \in Paths |-> 0]
    /\ started = [p \in Paths |-> 0]
    /\ convIn = [f |-> "none", p |-> NaN]
    /\ convOut = <<>>

Next ==
    \/ PageRequest
    \/ FetchAllReturns
    \/ Fetch
    \/ Extract
    \/ Read
    \/ Write
    \/ ReadFails
    \/ WriteFails

Spec == Init /\ [][Next]_vars

-----------------------------------------------------------------------------
(* The update run beside another writer to the same storage paths           *)

\* What the other writer stores: odds of the source the updater does not
\* write, or another field of the record
OtherKey(v) == IF v = "kalshi" THEN "polymarket" ELSE "kalshi"
OtherOdds == <<"+", "2", "5", "0">>
OtherFilm == "f9"

\* Another client of the database changes a nominee record at the path of
\* the category between the updater's read and its write
OtherWriter ==
    /\ pc = "write"
    /\ \E i \in 1..Len(store[cat]) :
          \/ /\ ~(/\ OtherKey(variant) \in DOMAIN store[cat][i].odds
                  /\ store[cat][i].odds[OtherKey(variant)] = OtherOdds)
             /\ store' = [store EXCEPT ![cat][i].odds = setOdds(@, OtherKey(variant), OtherOdds)]
          \/ /\ store[cat][i].film # OtherFilm
             /\ store' = [store EXCEPT ![cat][i].film = OtherFilm]
    /\ UNCHANGED <<variant, today, pc, cat, quotes, snap, response, countVars, bulkVars,
                   convVars>>

NextConcurrent ==
    \/ Next
    \/ OtherWriter

SpecConcurrent == Init /\ [][NextConcurrent]_vars

-----------------------------------------------------------------------------
(* The update run on markets at the ends of the price range                 *)

PageRequestDegenerate ==
    PageRequestFrom(PagesOf(DegenerateMarkets("bulk"), MaxMarkets - Len(allMarkets)))

FetchDegenerate == FetchFrom(ResponsesOf(variant, DegenerateMarkets(variant)))

NextDegenerate ==
    \/ PageRequestDegenerate
    \/ FetchAllReturns
    \/ FetchDegenerate
    \/ Extract
    \/ Read
    \/ Write
    \/ ReadFails
    \/ WriteFails

SpecDegenerate == Init /\ [][NextDegenerate]_vars

-----------------------------------------------------------------------------
(* The adapters alone, on a wide range of responses                         *)

\* Markets the sources may return: well-formed ones, placeholders, and
\* markets with malformed or absent fields
FetchMarkets(v) ==
    IF v = "kalshi"
    THEN { Km(Str(S_Anna), Undef, Num(82)),
           Km(Undef, Str(S_hanks), Num(50)),
           Km(Str(S_AnnaSp), Undef, Num(30)),
           Km(Undef, Undef, Num(30)),
           Km(Str(S_Anna), Undef, Undef),
           Km(Str(S_Anna), Undef, Null),
           Km(Str(S_Anna), Undef, Num(0)),
           Km(Str(S_Anna), Undef, Num(100)) }
    ELSE LET q == IF v = "bulk" THEN Str(S_Picture) ELSE Undef
             o == IF v = "bulk" THEN YesNo ELSE Undef
         IN  { Mk(Str(S_Anna), Prices(P082), q, o),
               Mk(Str(S_Dune), Prices(P03), q, o),
               Mk(Str(S_MovieAB), Prices(P03), q, o),
               Mk(Str(S_Other), Prices(P03), q, o),
               Mk(Str(S_MovieA), Prices(P03), q, o),
               Mk(Undef, Prices(P03), q, o),
               Mk(Str(S_Anna), Undef, q, o),
               Mk(Str(S_Anna), Num(30), q, o),
               Mk(Str(S_Anna), InvalidText, q, o),
               Mk(Str(S_Anna), Text(Arr(<<>>)), q, o),
               Mk(Str(S_Anna), Prices(Pabc), q, o),
               Mk(Str(S_Anna), Prices(P0), q, o),
               Mk(Str(S_Anna), Prices(P1), q, o),
               Mk(Str(S_Anna), Prices(P05), Str(S_SuperBowl), o) }

\* Every status with every body: a body can be well-formed under a failure status
FetchResponses(v) ==
    { NetError }
    \cup { Http(ok, body) :
             ok \in BOOLEAN,
             body \in {EmptyText, InvalidText, Text(Null), Text(Obj(Undef)),
                       Text(IF v = "bulk" THEN Page(<<>>, 0) ELSE Arr(<<>>))}
                      \cup { Envelope(v, ms) : ms \in SeqsUpTo(FetchMarkets(v), MaxMarkets) } }

AdapterCall ==
    /\ pc = "adapter"
    /\ \E v \in Variants :
         \E resp \in FetchResponses(v) :
            /\ variant' = v
            /\ response' = resp
            /\ quotes' \in adapter(v, resp)
    /\ pc' = "returned"
    /\ UNCHANGED <<store, today, cat, snap, countVars, bulkVars, convVars>>

InitFetch ==
    /\ variant = "slug"
    /\ store = [p \in Paths |-> <<>>]
    /\ today = 1
    /\ pc = "adapter"
    /\ cat = 1
    /\ quotes = Result(<<>>)
    /\ snap = <<>>
    /\ response = NoResponse
    /\ allMarkets = <<>>
    /\ offset = 0
    /\ requests = <<>>
    /\ pageSizes = <<>>
    /\ writes = [p \in Paths |-> 0]
    /\ reads = [p \in Paths |-> 0]
    /\ started = [p \in Paths |-> 0]
    /\ convIn = [f |-> "none", p |-> NaN]
    /\ convOut = <<>>

NextFetch == AdapterCall

SpecFetch == InitFetch /\ [][NextFetch]_vars

-----------------------------------------------------------------------------
(* The converters alone, on the grid of whole cents                         *)

\* The decimal string of c cents as Polymarket prints a price
PriceOf(c) == IF c = 100 THEN <<"1">>
              ELSE IF c = 0 THEN <<"0">>
              ELSE <<"0", ".", Digits[(c \div 10) + 1], Digits[(c % 10) + 1]>>

\* probToAmericanOdds(parseFloat(prices[0]))
ConvertProb ==
    /\ pc = "convert"
    /\ \E price \in {PriceOf(c) : c \in 0..100} \cup {Pabc} :
         /\ convIn' = [f |-> "probToAmericanOdds", p |-> parseFloat(price)]
         /\ convOut' = probToAmericanOdds(parseFloat(price))
    /\ pc' = "converted"
    /\ UNCHANGED <<variant, store, today, cat, quotes, snap, response, countVars, bulkVars>>

\* kalshiPriceToAmericanOdds(market.yes_price)
ConvertKalshi ==
    /\ pc = "convert"
    /\ \E cents \in 0..100 :
         /\ convIn' = [f |-> "kalshiPriceToAmericanOdds", p |-> Fin(cents)]
         /\ convOut' = kalshiPriceToAmericanOdds(cents)
    /\ pc' = "converted"
    /\ UNCHANGED <<variant, store, today, cat, quotes, snap, response, countVars, bulkVars>>

InitConv ==
    /\ variant = "slug"
    /\ store = [p \in Paths |-> <<>>]
    /\ today = 1
    /\ pc = "convert"
    /\ cat = 1
    /\ quotes = Result(<<>>)
    /\ snap = <<>>
    /\ response = NoResponse
    /\ allMarkets = <<>>
    /\ offset = 0
    /\ requests = <<>>
    /\ pageSizes = <<>>
    /\ writes = [p \in Paths |-> 0]
    /\ reads = [p \in Paths |-> 0]
    /\ started = [p \in Paths |-> 0]
    /\ convIn = [f |-> "none", p |-> NaN]
    /\ convOut = <<>>

NextConv ==
    \/ ConvertProb
    \/ ConvertKalshi

SpecConv == InitConv /\ [][NextConv]_vars

-----------------------------------------------------------------------------
(* Properties                                                               *)

\* The step in which the updater's write lands (or, for an empty patch, is skipped)
WriteStep == pc = "write" /\ pc' \notin {"write", "fatal"}

\* The store's entry for nominee i of the category being written carries odds o
\* under the updater's key
HasOdds(nominee, key, o) == key \in DOMAIN nominee.odds /\ nominee.odds[key] = o

\* C1: when updateCategory writes for a category with quotes and stored
\* nominees, every stored nominee for which find returned a quote ends with
\* odds.<source> equal to that quote's odds string and lastUpdated equal to
\* the run date.
C1_MatchedNomineeGetsQuoteOdds ==
    [][WriteStep =>
         \A i \in 1..Len(snap) :
            LET k == findMatch(variant, quotes.list, snap[i].name)
            IN  k # 0 =>
                  /\ HasOdds(store'[cat][i], SourceKey(variant), quotes.list[k].odds)
                  /\ store'[cat][i].lastUpdated = today]_vars

\* C1 witness: the slug updater has written "-456" (probability 0.82) and the
\* run date for the stored nominee "Anna" of the second path, which had no odds
C1_Witness ==
    /\ variant = "slug"
    /\ writes[2] = 1
    /\ Len(store[2]) = 1
    /\ store[2][1].name = S_Anna
    /\ store[2][1].odds = [polymarket |-> <<"-","4","5","6">>]
    /\ store[2][1].lastUpdated = today

\* C10: for every probability of 1..99 cents the odds string starts with '-'
\* exactly when the probability is at least 0.5 and with '+' otherwise, and
\* 0.5 gives "-100"; for both converters.
C10_SignFollowsHalf ==
    (convIn.f # "none" /\ convIn.p.k = "fin" /\ convIn.p.n \in 1..99) =>
        /\ convOut # <<>>
        /\ (Head(convOut) = "-") <=> (convIn.p.n >= 50)
        /\ (convIn.p.n < 50) => (Head(convOut) = "+")
        /\ (convIn.p.n = 50) => (convOut = <<"-","1","0","0">>)

\* C10 witness: probToAmericanOdds(parseFloat("0.50")) has returned "-100"
C10_Witness ==
    /\ convIn = [f |-> "probToAmericanOdds", p |-> Fin(50)]
    /\ convOut = <<"-","1","0","0">>

\* C2: no step changes the length, the order or the names of a stored list;
\* a record changes only in the write of its own category and only if find
\* returned a quote for it, and then only in odds.<source> and lastUpdated:
\* the odds of other sources and every other field stay.
C2_OnlyMatchedOddsChange ==
    [][\A p \in Paths :
         /\ Len(store'[p]) = Len(store[p])
         /\ \A i \in 1..Len(store[p]) :
              /\ store'[p][i].name = store[p][i].name
              /\ store'[p][i] # store[p][i] =>
                   /\ pc = "write" /\ p = cat
                   /\ findMatch(variant, quotes.list, snap[i].name) # 0
                   /\ store'[p][i] = [store[p][i] EXCEPT !.odds = store'[p][i].odds,
                                                         !.lastUpdated = store'[p][i].lastUpdated]
                   /\ DOMAIN store'[p][i].odds = (DOMAIN store[p][i].odds) \cup {SourceKey(variant)}
                   /\ \A k \in (DOMAIN store[p][i].odds) \ {SourceKey(variant)} :
                        store'[p][i].odds[k] = store[p][i].odds[k]]_vars

\* C2 witness: a full-replace updater has written the list <<Tom Hanks, Anna>>:
\* Tom Hanks, unmatched, is as before; Anna has the new Polymarket odds and
\* her Kalshi odds
C2_Witness ==
    /\ variant = "slugfull"
    /\ writes[1] = 1
    /\ Len(store[1]) = 2
    /\ store[1][1] = [name |-> S_TomHanks, film |-> "f2", odds |-> <<>>, lastUpdated |-> 0]
    /\ store[1][2] = [name |-> S_Anna, film |-> "f1",
                      odds |-> [polymarket |-> <<"-","4","5","6">>, kalshi |-> <<"+","1","5","0">>],
                      lastUpdated |-> today]

\* C3 (as claimed): when some quote's name equals the nominee's name
\* case-insensitively, the odds written for the nominee are those of a quote
\* with an exactly equal (case-insensitive) name, whatever the order of the quotes.
C3_ExactMatchWins ==
    [][WriteStep =>
         \A i \in 1..Len(snap) :
            (\E k \in 1..Len(quotes.list) :
                toLowerCase(quotes.list[k].name) = toLowerCase(snap[i].name))
            => \E k \in 1..Len(quotes.list) :
                  /\ toLowerCase(quotes.list[k].name) = toLowerCase(snap[i].name)
                  /\ HasOdds(store'[cat][i], SourceKey(variant), quotes.list[k].odds)]_vars

\* The three relations of the matching rule, on lower-cased names
Related(qname, nname) ==
    \/ toLowerCase(qname) = toLowerCase(nname)
    \/ includes(toLowerCase(qname), toLowerCase(nname))
    \/ includes(toLowerCase(nname), toLowerCase(qname))

\* The quotes related to a nominee name, by index
RelatedQuotes(qs, nname) == {k \in 1..Len(qs) : Related(qs[k].name, nname)}

C5_SubstringIgnoresCase ==
    [][(WriteStep /\ variant \in {"slug", "kalshi", "bulk"}) =>
         \A i \in 1..Len(snap) :
            (\E k \in 1..Len(quotes.list) :
                \/ includes(toLowerCase(quotes.list[k].name), toLowerCase(snap[i].name))
                \/ includes(toLowerCase(snap[i].name), toLowerCase(quotes.list[k].name)))
            => /\ SourceKey(variant) \in DOMAIN store'[cat][i].odds
               /\ store'[cat][i].lastUpdated = today]_vars

\* C9: the page requests go out at offsets 0, 100, 200, ... in order; every
\* page before the last request held 100 markets (a short, empty or failed
\* page is the last); there are never more than 5 requests, and after the
\* fifth the loop has ended.
C9_PaginationStops ==
    /\ Len(requests) <= 5
    /\ Len(pageSizes) = Len(requests)
    /\ \A i \in 1..Len(requests) : requests[i] = 100 * (i - 1)
    /\ \A i \in 1..(Len(requests) - 1) : pageSizes[i] = 100
    /\ (pc = "page") => /\ Len(requests) < 5
                        /\ offset = 100 * Len(requests)
                        /\ \A i \in 1..Len(requests) : pageSizes[i] = 100

\* C9 witness: a page of 100, then a page of 40, and the loop has ended
C9_Witness ==
    /\ variant = "bulk"
    /\ requests = <<0, 100>>
    /\ pageSizes = <<100, 40>>
    /\ pc = "paged"

\* C9, the longest run: five full pages, the last at offset 400
C9_FivePages ==
    /\ requests = <<0, 100, 200, 300, 400>>
    /\ pageSizes = <<100, 100, 100, 100, 100>>
    /\ pc = "paged"

\* A transport failure: network error, non-success status, empty or unparseable body
IsTransportFailure(resp) ==
    \/ resp.net = "error"
    \/ resp.net = "ok" /\ (~resp.ok \/ resp.body.json.t \in {"empty", "invalid"})

\* C6 (as claimed): whatever the adapter, a call that meets a transport
\* failure returns an empty result; in particular a non-success status never
\* yields quotes, whatever the body.
C6_TransportFailureGivesNothing ==
    (pc = "returned" /\ IsTransportFailure(response)) => quotes.list = <<>>

\* The markets of a response whose body has the shape the adapter expects
HasMarkets(v, resp) ==
    /\ resp.net = "ok"
    /\ resp.body.json.t \in {"array", "object"}
    /\ IF v = "bulk" THEN resp.body.json.t = "array"
       ELSE /\ resp.body.json.t = "array"
            /\ resp.body.json.items # <<>>
            /\ resp.body.json.items[1].t = "object"
            /\ resp.body.json.items[1].markets.t = "array"
MarketsOf(v, resp) ==
    IF v = "bulk" THEN resp.body.json.items ELSE resp.body.json.items[1].markets.items

\* A market with a name and with outcome prices that are the JSON text of a
\* non-empty array whose first element is numeric
WellFormed(m) ==
    /\ Truthy(m.groupItemTitle)
    /\ m.outcomePrices.t = "string"
    /\ m.outcomePrices.json.t = "array"
    /\ m.outcomePrices.json.items # <<>>
    /\ parseFloat(m.outcomePrices.json.items[1]).k = "fin"

\* The market belongs to the category the call is for (bulk: by its question)
InCategory(v, m) == v # "bulk" \/ (Truthy(m.question) /\ includes(m.question.s, Search[1]))

\* A generic placeholder name: 'Other', or Movie/Actor/Actress/Director/Film,
\* a space and one letter, case-insensitively
IsPlaceholder(name) ==
    LET l == toLowerCase(name)
    IN  \/ l = <<"o","t","h","e","r">>
        \/ \E p \in {S_movie, S_actor, S_actress, S_director, S_film} :
              \E i \in 1..Len(Lower) : l = p \o <<" ", Lower[i]>>

\* C7 (as claimed): in the Polymarket adapters that parse markets (slug,
\* slugfull, bulk) a malformed market contributes no quote, and every
\* well-formed market of the same successful response still contributes its quote.
C7_MalformedMarketSkippedAlone ==
    (/\ pc = "returned"
     /\ variant \in {"slug", "slugfull", "bulk"}
     /\ HasMarkets(variant, response)
     /\ response.ok)
    => LET ms == MarketsOf(variant, response)
       IN  /\ \A i \in 1..Len(ms) :
                (WellFormed(ms[i]) /\ InCategory(variant, ms[i])
                   /\ ~IsPlaceholder(ms[i].groupItemTitle.s))
                => \E j \in 1..Len(quotes.list) :
                      /\ quotes.list[j].name = ms[i].groupItemTitle.s
                      /\ quotes.list[j].odds =
                            probToAmericanOdds(parseFloat(ms[i].outcomePrices.json.items[1]))
           /\ Len(quotes.list) <= Cardinality({i \in 1..Len(ms) : WellFormed(ms[i])})

\* C8 (as claimed): no quote of a by-slug or bulk adapter bears a placeholder
\* name, and every market of a successful response that has a valid
\* probability and another name is retained.
C8_PlaceholdersDroppedOthersKept ==
    (pc = "returned" /\ variant \in {"slug", "slugfull", "bulk"})
    => /\ \A j \in 1..Len(quotes.list) : ~IsPlaceholder(quotes.list[j].name)
       /\ (HasMarkets(variant, response) /\ response.ok) =>
             \A i \in 1..Len(MarketsOf(variant, response)) :
                LET m == MarketsOf(variant, response)[i]
                IN  (WellFormed(m) /\ InCategory(variant, m) /\ ~IsPlaceholder(m.groupItemTitle.s))
                    => \E j \in 1..Len(quotes.list) : quotes.list[j].name = m.groupItemTitle.s

\* The converter call at the mirrored probability 1 - p
mirrored ==
    IF convIn.f = "probToAmericanOdds"
    THEN probToAmericanOdds(parseFloat(PriceOf(100 - convIn.p.n)))
    ELSE kalshiPriceToAmericanOdds(100 - convIn.p.n)

\* The odds string of c cents when every binary64 operation of the converter is carried out
Odds64Str(c) ==
    IF c >= 50 THEN IntToStr(NegOdds64(c)) ELSE <<"+">> \o IntToStr(PosOdds64(c))

\* At every probability of 1..99 cents both converters return what the
\* binary64 evaluation of their expressions gives
ConvertersFollowBinary64 ==
    (convIn.f # "none" /\ convIn.p.k = "fin" /\ convIn.p.n \in 1..99) =>
        convOut = Odds64Str(convIn.p.n)

\* C11 (amended): for every probability p of 1..99 cents other than 0.5, in
\* the binary64 arithmetic the converters perform, the odds for p and the
\* odds for 1 - p have opposite signs and the same digits.
C11_SymmetricAroundHalf ==
    (convIn.f # "none" /\ convIn.p.k = "fin" /\ convIn.p.n \in (1..99) \ {50}) =>
        /\ Head(convOut) \in {"+", "-"}
        /\ Head(mirrored) \in {"+", "-"}
        /\ Head(convOut) # Head(mirrored)
        /\ Tail(convOut) = Tail(mirrored)

\* C11 witness: probToAmericanOdds(0.68) has returned "-213", where the exact
\* quotient is -212.5 and the binary64 quotient lies just below it; the
\* mirrored call gives "+213"
C11_Witness ==
    /\ convIn = [f |-> "probToAmericanOdds", p |-> Fin(68)]
    /\ convOut = <<"-","2","1","3">>
    /\ mirrored = <<"+","2","1","3">>

\* The odds of c cents in exact arithmetic, rounded as Math.round does
exactOdds(c) ==
    IF c >= 50 THEN RoundDiv(-(100 * c), 100 - c) ELSE RoundDiv(100 * (100 - c), c)

\* C11 (as claimed): for every probability p of 1..99 cents other than 0.5,
\* with exact arithmetic and halves rounded toward +Infinity, the odds for p
\* and the odds for 1 - p have opposite signs and the same magnitude.
C11_SymmetricExact ==
    (convIn.f # "none" /\ convIn.p.k = "fin" /\ convIn.p.n \in (1..99) \ {50}) =>
        /\ (exactOdds(convIn.p.n).n < 0) # (exactOdds(100 - convIn.p.n).n < 0)
        /\ exactOdds(convIn.p.n).n = -exactOdds(100 - convIn.p.n).n

\* updateCategory has returned normally and main goes on to the next category
\* (or, after the last one, to its end)
MovedOn == IF cat < NumCategories THEN cat' = cat + 1 /\ pc' = "fetch" ELSE pc' = "done"

\* C12: when the adapter returns zero quotes (an empty list or null)
\* updateCategory reads and writes nothing and the run moves on; when the
\* read finds no nominees at the path it writes nothing and the run moves on;
\* so storage is read only with quotes in hand and written only with quotes
\* and stored nominees.
C12_EmptyMeansNoWrite ==
    [][/\ (pc = "fetch" /\ (quotes'.null \/ quotes'.list = <<>>)) =>
             (store' = store /\ writes' = writes /\ reads' = reads /\ MovedOn)
       /\ (pc = "read" /\ store[cat] = <<>> /\ pc' # "fatal") =>
             (store' = store /\ writes' = writes /\ MovedOn)
       /\ (reads' # reads) => (~quotes.null /\ quotes.list # <<>>)
       /\ (writes' # writes) => (quotes.list # <<>> /\ snap # <<>>)]_vars

\* C12 witness: the run has ended normally; the first category, with stored
\* nominees, got zero quotes and was never read; the second got quotes, was
\* read, held no nominees and was not written
C12_Witness ==
    /\ pc = "done"
    /\ started = <<1, 1>>
    /\ reads = <<0, 1>>
    /\ writes = <<0, 0>>
    /\ store[1] # <<>>
    /\ store[2] = <<>>

\* C13: with no other writer, whichever updater writes, the list the store
\* holds after the write is both what the partial patch of the keys
\* <index>/odds/<source> and <index>/lastUpdated gives and what replacing the
\* list by the mapped copy gives, for the same quotes and matching rule.
C13_PatchEqualsReplace ==
    [][WriteStep =>
         /\ store'[cat] = applyPatch(variant, quotes.list, snap, store[cat], today)
         /\ store'[cat] = mapNominees(variant, quotes.list, snap, today)]_vars

\* C13 witness: the Kalshi updater has patched a nominee that had no odds
\* object, and one that had odds of both sources
C13_Witness ==
    /\ variant = "kalshi"
    /\ writes = <<1, 1>>
    /\ Len(store[1]) = 1
    /\ store[1][1] = [name |-> S_Anna, film |-> "f1",
                      odds |-> [polymarket |-> <<"+","9","0","0">>, kalshi |-> <<"-","4","5","6">>],
                      lastUpdated |-> today]
    /\ store[2] = <<[name |-> S_Anna, film |-> "f1", odds |-> [kalshi |-> <<"-","4","5","6">>],
                     lastUpdated |-> today]>>

-----------------------------------------------------------------------------
(* C14: how a run ends                                                      *)

\* process.exit has been called
Ended == pc \in {"done", "fatal"}

\* A run whose network and storage calls all settle: every await of main
\* and updateCategory resumes, so an enabled step is eventually taken
FairSpec == Spec /\ WF_vars(Next)

\* updateCategory has been called exactly once for category c
Processed(c) == started[c] = 1

\* Nothing of category c has happened: no fetch, no read, no write
Untouched(c) == started[c] = 0 /\ reads[c] = 0 /\ writes[c] = 0

\* main of the bulk-search run leaves with status 0 before its loop
FoundNothing == variant = "bulk" /\ allMarkets = <<>>

\* The categories are taken one at a time in the order of the configuration
InOrder ==
    /\ \A c \in Paths : started[c] <= 1 /\ reads[c] <= started[c] /\ writes[c] <= reads[c]
    /\ \A c \in Paths : c < cat => Processed(c)
    /\ \A c \in Paths : c > cat => Untouched(c)

\* C14 as stated: success is reached only after every category has been
\* processed exactly once
C14_SuccessProcessesAll == pc = "done" => \A c \in Paths : Processed(c)

\* C14: every run ends, in success or in fatal failure, and stays there;
\* success is reached after every category has been processed exactly once,
\* one at a time in the order of the configuration, or, in the bulk-search
\* run, at once when no Oscars market was found, with no category processed;
\* a fatal failure is reached from a storage read or write of category k that
\* fails, with no category after k fetched or written and the stored lists
\* left as the earlier writes made them
C14_RunEnds ==
    /\ <>Ended
    /\ [](~Ended => ENABLED Next)
    /\ [](InOrder)
    /\ [](pc = "done" => \/ \A c \in Paths : Processed(c)
                         \/ FoundNothing /\ \A c \in Paths : Untouched(c))
    /\ [](pc = "fatal" => Processed(cat) /\ reads[cat] = 1)
    /\ [][/\ Ended => pc' = pc /\ store' = store
          /\ (pc' = "fatal") => (pc \in {"read", "write"} /\ store' = store)
          /\ \A c \in Paths : store'[c] # store[c] => (c = cat /\ pc = "write")
          /\ \A c \in Paths : started'[c] # started[c] =>
                (c = cat /\ pc = "fetch" /\ \A d \in Paths : d < c => Processed(d))]_vars

\* Both categories were written and the run ended in success
C14_Witness ==
    /\ pc = "done"
    /\ \A c \in Paths : Processed(c) /\ writes[c] = 1

\* The second category's read failed after the first category was written
C14_WitnessFatal ==
    /\ pc = "fatal"
    /\ cat = 2
    /\ writes[1] = 1
    /\ Untouched(2) = FALSE

\* The bulk-search run ended in success with no category processed
C14_WitnessFoundNothing ==
    /\ pc = "done"
    /\ FoundNothing
    /\ \A c \in Paths : Untouched(c)

-----------------------------------------------------------------------------
(* C15: the form of the stored odds                                         *)

\* A '+' or '-' sign followed by a decimal integer of magnitude at least 100
IsAmericanOdds(s) ==
    /\ Len(s) >= 2
    /\ s[1] \in {"+", "-"}
    /\ \A i \in 2..Len(s) : IsDigit(s[i])
    /\ StrToNat(Tail(s)) >= 100

\* C15: every odds value in storage is a sign followed by a finite decimal
\* integer of magnitude at least 100, also after an update from markets
\* priced 0, 1 (Kalshi 0, 100) or with a non-numeric price
C15_StoredOddsAreFinite ==
    \A p \in Paths : \A i \in 1..Len(store[p]) : \A key \in DOMAIN store[p][i].odds :
        IsAmericanOdds(store[p][i].odds[key])

-----------------------------------------------------------------------------
(* C16: a failed page of the bulk listing                                   *)

\* The last page request of fetchAllOscarsMarkets threw
Failed == pageSizes # <<>> /\ pageSizes[Len(pageSizes)] = -1

\* C16: in the bulk-search run, when a page request fails,
\* fetchAllOscarsMarkets returns an empty list whatever the earlier pages
\* held, main then ends the run with success, and no category has been read
\* or written
C16_FailedPageDiscardsAll ==
    /\ [](Failed => variant = "bulk" /\ pc = "paged" /\ allMarkets = <<>>)
    /\ [][(pc = "paged" /\ Failed) =>
             (pc' = "done" /\ store' = store /\ reads' = reads /\ writes' = writes)]_vars
    /\ [](pc = "done" /\ FoundNothing =>
             \A c \in Paths : reads[c] = 0 /\ writes[c] = 0)

\* The third page failed after two full pages
C16_Witness ==
    /\ pc = "paged"
    /\ Failed
    /\ pageSizes = <<PageLimit, PageLimit, -1>>
    /\ allMarkets = <<>>

-----------------------------------------------------------------------------
(* C17: the bulk-search updater writes the most probable matching quote     *)

\* The quotes of qs that satisfy the matching rule for the nominee
Matching(v, qs, nname) == {k \in 1..Len(qs) : nameMatches(v, qs[k].name, nname)}

\* C17: in the bulk-search updater, when every quote of the category has a
\* numeric probability, the quote list is in non-increasing order of
\* probability, and a nominee that several quotes match is written the odds
\* of a matching quote of the highest probability among them
C17_HighestProbabilityWins ==
    [][(WriteStep /\ variant = "bulk" /\ \A k \in 1..Len(quotes.list) : IsNumeric(quotes.list[k]))
         => /\ \A k \in 1..Len(quotes.list) - 1 :
                 quotes.list[k].probability.n >= quotes.list[k + 1].probability.n
            /\ \A i \in 1..Len(snap) :
                 LET M == Matching(variant, quotes.list, snap[i].name)
                 IN  M # {} =>
                       \E k \in M :
                          /\ HasOdds(store'[cat][i], "polymarket", quotes.list[k].odds)
                          /\ \A j \in M :
                               quotes.list[k].probability.n >= quotes.list[j].probability.n]_vars

\* The listing held "Annabelle" at 0.3 before "Anna" at 0.82; both match the
\* nominee "Anna", who was written the odds of 0.82
C17_Witness ==
    /\ variant = "bulk"
    /\ writes[1] = 1
    /\ Len(allMarkets) = 2
    /\ allMarkets[1] = Mk(Str(S_Annabelle), Prices(P03), Str(S_Picture), YesNo)
    /\ allMarkets[2] = Mk(Str(S_Anna), Prices(P082), Str(S_Picture), YesNo)
    /\ Len(store[1]) >= 1
    /\ store[1][1].name = S_Anna
    /\ HasOdds(store[1][1], "polymarket", <<"-", "4", "5", "6">>)

-----------------------------------------------------------------------------
(* C18: a change made by another writer between the read and the write      *)

\* The write leaves in place what the list at the path holds in the fields
\* the updater does not write: the nominees, their other fields and the odds
\* of other sources
KeepsOtherFields ==
    /\ Len(store'[cat]) = Len(store[cat])
    /\ \A i \in 1..Len(store[cat]) :
         /\ store'[cat][i].name = store[cat][i].name
         /\ store'[cat][i].film = store[cat][i].film
         /\ \A key \in DOMAIN store[cat][i].odds \ {SourceKey(variant)} :
              HasOdds(store'[cat][i], key, store[cat][i].odds[key])

\* C18 as stated: the other writer's change is still present after the
\* write of every updater, patching or replacing
C18_ConcurrentChangeSurvives == [][WriteStep => KeepsOtherFields]_vars

\* C18: a change another writer makes after the updater's read to a field
\* the updater does not write (odds of another source, another field of the
\* record) is still present after the write of a partial-patch updater; a
\* full-replace updater writes the list as it read it, with its own odds, and
\* the change is gone
C18_PatchKeepsConcurrentChange ==
    [][WriteStep =>
         IF Patches(variant)
         THEN KeepsOtherFields
         ELSE store'[cat] = mapNominees(variant, quotes.list, snap, today)]_vars

\* The Kalshi updater wrote -456 for "Anna" of the first path after another
\* writer had set her Polymarket odds to +250
C18_Witness ==
    /\ variant = "kalshi"
    /\ writes[1] = 1
    /\ Len(store[1]) >= 1
    /\ store[1][1].name = S_Anna
    /\ HasOdds(store[1][1], "kalshi", <<"-", "4", "5", "6">>)
    /\ HasOdds(store[1][1], "polymarket", OtherOdds)

=============================================================================
